---- MODULE Spec2Model ----
(***************************************************************************)
(* json2video: a model of the request path                                 *)
(*   /generate_video -> process_video_request_with_timeout                 *)
(*                   -> generate_video -> create_clip -> create_*_clip     *)
(*                   -> send_webhook                                       *)
(* and of the unit resolver (parse_percentage, parse_size).                *)
(*                                                                         *)
(* Python values are tagged records: None, a number, a string.  A string   *)
(* is the tuple of its characters, so that strip / lower / endswith /      *)
(* rstrip / float() are computed on the characters.  A dict is a function  *)
(* from its present keys to values: a missing key is a key outside the     *)
(* DOMAIN, a key holding None is a key mapped to NoneV.                    *)
(* Numbers are integers: every literal of the input sets is integral, and  *)
(* the float products the code truncates are exact on those sets.          *)
(***************************************************************************)
EXTENDS Integers, Sequences, FiniteSets, TLC

VARIABLES
    request,       \* the JSON body the client built (never changes)
    pc,            \* position of the job
    via,           \* "http": submitted to /generate_video; "direct": generate_video called with the dict
    json_data,     \* the scene dict handed to generate_video
    index,         \* 1-based position of the element loop of generate_video
    video_clips,   \* generate_video's video_clips list
    audio_clips,   \* generate_video's audio_clips list
    plan,          \* the clip list handed to CompositeVideoClip
    engine_called, \* CompositeVideoClip(...) was invoked
    upload_called, \* requests.post('https://0x0.st', ...) was invoked
    video_url,     \* what generate_video returned (NoneV, or a string)
    gen_error,     \* the exception that ended generate_video early, "" if none
    retry_count,   \* main.py's retry_count
    calls,         \* the POSTs the webhook receiver got: <<[payload, outcome]>>
    log,           \* the job's final log line of process_video_request_with_timeout
    tmp_files,     \* the temporary files of the elements that are on disk
    upload_status, \* the status code the upload host answered with, 0 before
    sample,        \* the frame write_videofile is rendering: a clip, a time, its scales
    u_n, u_kind, u_value, u_total, u_w, u_h, u_ret   \* one call of the unit resolver

vars == <<request, pc, via, json_data, index, video_clips, audio_clips, plan, engine_called,
          upload_called, video_url, gen_error, retry_count, calls, log,
          tmp_files, upload_status, sample,
          u_n, u_kind, u_value, u_total, u_w, u_h, u_ret>>

jobvars == <<request, pc, via, json_data, index, video_clips, audio_clips, plan, engine_called,
             upload_called, video_url, gen_error, retry_count, calls, log,
             tmp_files, upload_status, sample>>

rendervars == <<tmp_files, upload_status, sample>>

unitvars == <<u_n, u_kind, u_value, u_total, u_w, u_h, u_ret>>

-----------------------------------------------------------------------------
(* Python values *)

NoneV == [t |-> "none"]
Num(n) == [t |-> "int", n |-> n]
Str(c) == [t |-> "str", s |-> c]

IsNone(v) == v.t = "none"
IsNum(v) == v.t = "int"
IsStr(v) == v.t = "str"

\* bool(v): None, 0 and "" are false
Truthy(v) ==
    IF IsNone(v) THEN FALSE
    ELSE IF IsNum(v) THEN v.n # 0
    ELSE v.s # <<>>

\* dict.get(key, default) and "key in dict"
HasKey(d, k) == k \in DOMAIN d
Get(d, k, default) == IF HasKey(d, k) THEN d[k] ELSE default

Min(a, b) == IF a < b THEN a ELSE b
Max(a, b) == IF a > b THEN a ELSE b

\* int(a / b), b > 0: Python's int() truncates toward zero
IntTrunc(a, b) == IF a >= 0 THEN a \div b ELSE -((-a) \div b)

-----------------------------------------------------------------------------
(* Python str methods, on tuples of characters *)

Whitespace == {" ", "\n", "\t"}
Digits == <<"0", "1", "2", "3", "4", "5", "6", "7", "8", "9">>
UpperCase == <<"A", "B", "C", "D", "E", "F", "G", "H", "I", "J", "K", "L", "M",
               "N", "O", "P", "Q", "R", "S", "T", "U", "V", "W", "X", "Y", "Z">>
LowerCase == <<"a", "b", "c", "d", "e", "f", "g", "h", "i", "j", "k", "l", "m",
               "n", "o", "p", "q", "r", "s", "t", "u", "v", "w", "x", "y", "z">>

LowerChar(c) ==
    IF \E i \in 1..26 : UpperCase[i] = c
    THEN LowerCase[CHOOSE i \in 1..26 : UpperCase[i] = c]
    ELSE c

\* s.lower()
Lower(s) == [i \in 1..Len(s) |-> LowerChar(s[i])]

RECURSIVE LStripChars(_, _)
LStripChars(s, chars) ==
    IF s # <<>> /\ Head(s) \in chars THEN LStripChars(Tail(s), chars) ELSE s

\* s.rstrip(chars): drops every trailing character that is in chars
RECURSIVE RStripChars(_, _)
RStripChars(s, chars) ==
    IF s # <<>> /\ s[Len(s)] \in chars
    THEN RStripChars(SubSeq(s, 1, Len(s) - 1), chars)
    ELSE s

\* s.strip()
Strip(s) == LStripChars(RStripChars(s, Whitespace), Whitespace)

StartsWith(s, pre) == Len(s) >= Len(pre) /\ SubSeq(s, 1, Len(pre)) = pre
EndsWith(s, suf) ==
    Len(s) >= Len(suf) /\ SubSeq(s, Len(s) - Len(suf) + 1, Len(s)) = suf

\* sub in s
Contains(s, sub) ==
    \E i \in 1..(Len(s) - Len(sub) + 1) : SubSeq(s, i, i + Len(sub) - 1) = sub

\* s.replace(old, ''), old non-empty: left to right, non-overlapping
RECURSIVE Remove(_, _)
Remove(s, old) ==
    IF s = <<>> THEN <<>>
    ELSE IF StartsWith(s, old) THEN Remove(SubSeq(s, Len(old) + 1, Len(s)), old)
    ELSE <<Head(s)>> \o Remove(Tail(s), old)

IsDigit(c) == \E i \in 1..10 : Digits[i] = c
DigitValue(c) == (CHOOSE i \in 1..10 : Digits[i] = c) - 1

RECURSIVE DigitsValue(_)
DigitsValue(s) ==
    IF s = <<>> THEN 0
    ELSE 10 * DigitsValue(SubSeq(s, 1, Len(s) - 1)) + DigitValue(s[Len(s)])

\* float(s) on the literals [ws][+-]digits[ws]; anything else made of the
\* model's characters (letters, '%', inner blanks) is a ValueError.
\* Returns [ok |-> TRUE, v |-> value] or [ok |-> FALSE] (ValueError).
ParseFloat(s) ==
    LET b == Strip(s)
        signed == b # <<>> /\ Head(b) \in {"+", "-"}
        d == IF signed THEN Tail(b) ELSE b
    IN  IF d # <<>> /\ \A i \in 1..Len(d) : IsDigit(d[i])
        THEN [ok |-> TRUE,
              v |-> IF signed /\ Head(b) = "-" THEN -DigitsValue(d) ELSE DigitsValue(d)]
        ELSE [ok |-> FALSE]

\* str(n) for an integer n (the f"{value}" of a caller building "N%")
RECURSIVE NatToChars(_)
NatToChars(n) ==
    IF n < 10 THEN <<Digits[n + 1]>>
    ELSE NatToChars(n \div 10) \o <<Digits[(n % 10) + 1]>>

IntToChars(n) == IF n < 0 THEN <<"-">> \o NatToChars(-n) ELSE NatToChars(n)

PERCENT == <<"%">>
VMIN == <<"v", "m", "i", "n">>

-----------------------------------------------------------------------------
(* Unit resolver: video_generator.py parse_percentage, parse_size *)

\* a faulty variant of the "%" branch: rounds half up instead of truncating
PercentOfRounded(percentage, total) ==
    IntTrunc(2 * Max(0, Min(percentage, 100)) * total + 100, 200)

\* lines 98-100: clamp to [0,100], int((percentage / 100) * total)
PercentOf(percentage, total) ==
    IntTrunc(Max(0, Min(percentage, 100)) * total, 100)

\* line 109: int((vmin_value / 100) * video_height), no clamp
VminOfHeight(vmin_value, video_height) ==
    IntTrunc(vmin_value * video_height, 100)

\* parse_percentage(value, total, video_height=None) -> int
parse_percentage(value, total, video_height) ==
    IF IsNum(value) THEN value.n
    ELSE IF IsStr(value) THEN
        LET v == Lower(Strip(value.s)) IN
        IF EndsWith(v, PERCENT) THEN
            LET f == ParseFloat(RStripChars(v, {"%"})) IN
            IF f.ok THEN PercentOf(f.v, total) ELSE 0
        ELSE IF Contains(v, VMIN) THEN
            LET f == ParseFloat(Strip(Remove(v, VMIN))) IN
            IF ~f.ok THEN 0
            ELSE IF IsNone(video_height) THEN 0
            ELSE VminOfHeight(f.v, video_height.n)
        ELSE 0
    ELSE 0

\* parse_size(size_str, reference_size, video_width, video_height) -> int or None
parse_size(size_str, reference_size, video_width, video_height) ==
    IF IsNone(size_str) THEN NoneV
    ELSE IF IsNum(size_str) THEN Num(Max(0, Min(size_str.n, reference_size)))
    ELSE
        LET s == Lower(Strip(size_str.s)) IN
        IF EndsWith(s, PERCENT) THEN Num(parse_percentage(Str(s), reference_size, NoneV))
        ELSE IF EndsWith(s, VMIN) THEN
            LET f == ParseFloat(Strip(RStripChars(s, {"v", "m", "i", "n"}))) IN
            IF f.ok
            THEN Num(IntTrunc(Max(0, Min(f.v, 100)) * Min(video_width, video_height), 100))
            ELSE NoneV
        ELSE
            LET f == ParseFloat(s) IN
            IF f.ok THEN Num(Max(0, Min(f.v, reference_size))) ELSE NoneV

-----------------------------------------------------------------------------
(* The world outside the process: assets, by URL *)

URL_WIDE == <<"w", ".", "p", "n", "g">>        \* an image of 4 x 2 pixels
URL_TALL == <<"t", ".", "p", "n", "g">>        \* an image of 2 x 4 pixels
URL_GONE == <<"4", "0", "4", ".", "p", "n", "g">>   \* the host answers 404
URL_BAD == <<"b", "a", "d", ".", "p", "n", "g">>    \* bytes PIL cannot open
URL_AUDIO == <<"a", ".", "m", "p", "3">>       \* a decodable audio file
URL_CUT == <<"h", "t", "t", "p", ":", "c">>    \* 200, then the body breaks off
URL_FONT == <<"h", "t", "t", "p", ":", "f">>   \* a font file

\* tempfile.NamedTemporaryFile(delete=False): the path of the file for url
TempPath(url) == Str(<<"/", "t", "m", "p", "/">> \o url.s)

\* download_file(url): a temporary path, or None when the request fails
\* (lines 61-62) or the body breaks off while it is written (lines 63-66)
download_file(url) ==
    IF IsStr(url) /\ url.s \in {URL_WIDE, URL_TALL, URL_BAD, URL_AUDIO, URL_FONT}
    THEN TempPath(url)
    ELSE NoneV

\* the files a call of download_file(url) has created: the temporary file
\* exists from line 63 on, whether or not the function returns its path
download_creates(url) ==
    IF IsStr(url) /\ url.s \in {URL_WIDE, URL_TALL, URL_BAD, URL_AUDIO, URL_FONT, URL_CUT}
    THEN {TempPath(url)}
    ELSE {}

\* Image.open(temp_image) succeeds and gives the native size
Decodable(url) == url.s \in {URL_WIDE, URL_TALL}
NativeW(url) == IF url.s = URL_WIDE THEN 4 ELSE 2
NativeH(url) == IF url.s = URL_WIDE THEN 2 ELSE 4

-----------------------------------------------------------------------------
(* Outcomes of a create_* call: a clip, None, or an exception that leaves it *)

Clip(c) == [kind |-> "clip", clip |-> c]
Dropped == [kind |-> "none"]
Raise(e) == [kind |-> "raise", exc |-> e]

\* "return None" after a log line that formats element['id']
LogIdThenNone(element) ==
    IF HasKey(element, "id") THEN Dropped ELSE Raise("KeyError")

\* Clip.set_start(t) after set_duration(d): self.end = t + self.duration
\* is evaluated when the duration is set, a TypeError for t = None
SetStartRaises(start_time, duration) == IsNone(start_time) /\ ~IsNone(duration)

\* element.get('track', 0), the value create_*_clip stores in clip.track
TrackOf(element) == Get(element, "track", Num(0))

\* element.get('time', 0.0), the value handed to set_start
StartOf(element) == Get(element, "time", Num(0))

\* lines 329-361: the animation loop of create_image_clip.
\* scale_func and the lambda handed to clip.resize are closures: their free
\* variables (anim_start_time, anim_end_time, start_scale, end_scale,
\* easing, scale_func) are the local variables of the one call of
\* create_image_clip, looked up when the closure is called.  The loop
\* rebinds them on every turn, so the model keeps the locals once, as the
\* clip's frame, and for every resize only that it was applied.
\* Scales are kept in hundredths: start_scale = 100 * (parse_percentage / 100).
NoFrame == [bound |-> FALSE]

E_LINEAR == <<"l", "i", "n", "e", "a", "r">>
E_QUAD == <<"q", "u", "a", "d", "r", "a", "t", "i", "c", "-", "o", "u", "t">>
A_SCALE == <<"s", "c", "a", "l", "e">>

\* lines 335-339: the locals one turn of the loop binds
AnimLocals(anim, clip_duration) ==
    LET anim_start_time == Get(anim, "time", Num(0)).n
        anim_duration == Get(anim, "duration", clip_duration)
    IN  [bound |-> TRUE,
         anim_start_time |-> anim_start_time,
         anim_end_time |-> anim_start_time + anim_duration.n,
         start_scale |-> parse_percentage(
             Get(anim, "start_scale", Str(<<"1", "0", "0", "%">>)), 100, NoneV),
         end_scale |-> parse_percentage(
             Get(anim, "end_scale", Str(<<"1", "3", "0", "%">>)), 100, NoneV),
         easing |-> Get(anim, "easing", Str(E_LINEAR))]

\* the loop: the locals and the number of resizes after each turn, turn 0
\* being the state before the loop; [ok, frame, resizes], ok = FALSE for
\* the TypeError of anim_start_time + None (no duration on the animation
\* nor on the clip)
AnimLoop(animations, clip_duration) ==
    LET IsScale(i) == Get(animations[i], "type", NoneV) = Str(A_SCALE)
        after[i \in 0..Len(animations)] ==
            IF i = 0 THEN [frame |-> NoFrame, resizes |-> 0]
            ELSE IF ~IsScale(i) THEN after[i - 1]
            ELSE [frame |-> AnimLocals(animations[i], clip_duration),
                  resizes |-> after[i - 1].resizes + 1]
    IN  IF \E i \in DOMAIN animations :
               IsScale(i) /\ IsNone(Get(animations[i], "duration", clip_duration))
        THEN [ok |-> FALSE]
        ELSE [ok |-> TRUE, frame |-> after[Len(animations)].frame,
              resizes |-> after[Len(animations)].resizes]

\* lines 341-353: scale_func(t) on the locals it finds when it is called;
\* the scale in hundredths as the fraction num / den, den = 0 for the
\* ZeroDivisionError of an animation of duration 0
scale_func(frame, t) ==
    IF t < frame.anim_start_time THEN [num |-> frame.start_scale, den |-> 1]
    ELSE IF t > frame.anim_end_time THEN [num |-> frame.end_scale, den |-> 1]
    ELSE
        LET d == frame.anim_end_time - frame.anim_start_time
            dt == t - frame.anim_start_time
        IN  IF d = 0 THEN [num |-> 0, den |-> 0]
            ELSE IF frame.easing = Str(E_QUAD)
            \* progress = 1 - (1 - dt/d) ** 2
            THEN [num |-> frame.start_scale * d * d
                          + (frame.end_scale - frame.start_scale) * (d * d - (d - dt) * (d - dt)),
                  den |-> d * d]
            ELSE [num |-> frame.start_scale * d + (frame.end_scale - frame.start_scale) * dt,
                  den |-> d]

\* line 356: the i-th resize(lambda t: scale_func(t)) of a clip, sampled at t
Transform(clip, i, t) == scale_func(clip.frame, t)

\* create_image_clip lines 384-385, 411-414: the resolver calls of the
\* "dimensions specified" branch
TargetWidth(element, video_width) ==
    parse_percentage(Get(element, "width", Str(<<"1", "0", "0", "%">>)), video_width, NoneV)

TargetHeight(element, video_height) ==
    parse_percentage(Get(element, "height", Str(<<"1", "0", "0", "%">>)), video_height, NoneV)

FinalX(element, video_width, clip_w) ==
    parse_percentage(Get(element, "x", Str(<<"0", "%">>)), video_width - clip_w, NoneV)

FinalY(element, video_height, clip_h) ==
    parse_percentage(Get(element, "y", Str(<<"0", "%">>)), video_height - clip_h, NoneV)

\* create_text_clip line 440
FontSize(element, video_width, video_height) ==
    parse_percentage(Get(element, "font_size", Str(<<"5", "%">>)),
                     Min(video_width, video_height), Num(video_height))

\* lines 363-415: [ok, w, h, x, y] of the final clip, ok = FALSE for the
\* ZeroDivisionError of target_width / target_height
ImageGeometry(element, nw, nh, video_width, video_height) ==
    IF \A attr \in {"width", "height", "x", "y"} : IsNone(Get(element, attr, NoneV))
    THEN
        LET wider == nw * video_height > video_width * nh
            new_height == IF wider THEN video_height ELSE IntTrunc(video_width * nh, nw)
            new_width == IF wider THEN IntTrunc(video_height * nw, nh) ELSE video_width
        IN  [ok |-> TRUE, w |-> new_width, h |-> new_height,
             x |-> (video_width - new_width) \div 2,
             y |-> (video_height - new_height) \div 2]
    ELSE
        LET target_width == TargetWidth(element, video_width)
            target_height == TargetHeight(element, video_height)
        IN  IF target_height = 0 THEN [ok |-> FALSE]
            ELSE [ok |-> TRUE, w |-> target_width, h |-> target_height,
                  x |-> FinalX(element, video_width, target_width),
                  y |-> FinalY(element, video_height, target_height)]

\* lines 279-425, inside the try: the image is decoded, timed, animated (a),
\* sized and placed (g), named
ImageClipOf(element, source, start_time, set_duration, g, a) ==
    \* except Exception: log element['id'], return None
    IF ~Decodable(source) THEN LogIdThenNone(element)
    ELSE IF SetStartRaises(start_time, set_duration) THEN LogIdThenNone(element)
    ELSE IF ~a.ok THEN LogIdThenNone(element)
    ELSE IF ~g.ok THEN LogIdThenNone(element)
    ELSE IF ~HasKey(element, "id") THEN Raise("KeyError")
    ELSE Clip([kind |-> "image", name |-> element["id"],
               track |-> TrackOf(element), start |-> start_time,
               duration |-> set_duration,
               w |-> g.w, h |-> g.h, x |-> g.x, y |-> g.y,
               resizes |-> a.resizes, frame |-> a.frame])

\* create_image_clip(element, video_width, video_height)
create_image_clip(element, video_width, video_height) ==
    LET source == Get(element, "source", NoneV)
        duration == Get(element, "duration", NoneV)
        set_duration == IF Truthy(duration) THEN duration ELSE NoneV
    IN  IF ~Truthy(source) THEN LogIdThenNone(element)
        ELSE IF IsNone(download_file(source)) THEN LogIdThenNone(element)
        ELSE ImageClipOf(element, source, StartOf(element), set_duration,
                         ImageGeometry(element, NativeW(source), NativeH(source),
                                       video_width, video_height),
                         AnimLoop(Get(element, "animations", <<>>), set_duration))

\* lines 274-277 and 426-427: the temporary files create_image_clip leaves
image_temp_left(element) ==
    LET source == Get(element, "source", NoneV) IN
    IF ~Truthy(source) THEN {}
    ELSE IF IsNone(download_file(source)) THEN download_creates(source)
    \* finally: os.unlink(temp_image)
    ELSE download_creates(source) \ {download_file(source)}

\* draw.textsize(text, font): the glyph box of the external font, one
\* font_size square per character
TextWidth(text, font_size) == Len(text) * font_size
TextHeight(text, font_size) == font_size

\* create_text_clip(element, video_width, video_height, total_duration)
create_text_clip(element, video_width, video_height, total_duration) ==
    IF ~HasKey(element, "id") THEN Raise("KeyError")
    ELSE
        LET raw == Get(element, "text", Str(<<>>)) IN
        IF ~IsStr(raw) THEN Raise("AttributeError")     \* None.strip()
        ELSE
            LET text == Strip(raw.s)
                start_time == StartOf(element)
                given == Get(element, "duration", NoneV)
                font_size == FontSize(element, video_width, video_height)
                tw == TextWidth(text, font_size)
                th == TextHeight(text, font_size)
            IN  IF text = <<>> THEN Dropped
                \* try: ... except Exception: return None
                ELSE IF IsNone(given) /\ ~IsNum(start_time) THEN Dropped  \* total_duration - None
                ELSE IF SetStartRaises(start_time, Num(0)) THEN Dropped
                ELSE Clip([kind |-> "text", name |-> element["id"],
                           track |-> TrackOf(element), start |-> start_time,
                           duration |-> IF IsNone(given)
                                        THEN Num(total_duration - start_time.n)
                                        ELSE given,
                           w |-> tw, h |-> th,
                           x |-> FinalX(element, video_width, tw),
                           y |-> FinalY(element, video_height, th),
                           resizes |-> 0, frame |-> NoFrame])

\* lines 446-453 and 495-498: the temporary files create_text_clip leaves
text_temp_left(element) ==
    LET raw == Get(element, "text", Str(<<>>))
        font_url == Get(element, "font_family", NoneV)
    IN  \* lines 431-438: left before any download
        IF ~HasKey(element, "id") \/ ~IsStr(raw) THEN {}
        ELSE IF Strip(raw.s) = <<>> THEN {}
        ELSE IF ~(Truthy(font_url) /\ StartsWith(font_url.s, <<"h", "t", "t", "p">>)) THEN {}
        \* font_path stays the default font: the finally has nothing to unlink
        ELSE IF IsNone(download_file(font_url)) THEN download_creates(font_url)
        \* finally: os.unlink(font_path)
        ELSE download_creates(font_url) \ {download_file(font_url)}

\* create_audio_clip(element)
create_audio_clip(element) ==
    LET source == Get(element, "source", NoneV)
        start_time == StartOf(element)
    IN  IF ~Truthy(source) THEN LogIdThenNone(element)
        ELSE IF IsNone(download_file(source)) THEN Dropped
        \* try: ... except Exception: print element['id'], return None
        ELSE IF source.s # URL_AUDIO THEN LogIdThenNone(element)
        ELSE IF SetStartRaises(start_time, Num(1)) THEN LogIdThenNone(element)
        ELSE IF ~HasKey(element, "id") THEN Raise("KeyError")
        ELSE Clip([kind |-> "audio", name |-> element["id"],
                   track |-> TrackOf(element), start |-> start_time])

\* lines 213-215 and 234-235: the temporary files create_audio_clip leaves
audio_temp_left(element) ==
    LET source == Get(element, "source", NoneV) IN
    IF ~Truthy(source) THEN {}
    ELSE IF IsNone(download_file(source)) THEN download_creates(source)
    \* finally: os.unlink(temp_audio)
    ELSE download_creates(source) \ {download_file(source)}

T_IMAGE == <<"i", "m", "a", "g", "e">>
T_VIDEO == <<"v", "i", "d", "e", "o">>
T_TEXT == <<"t", "e", "x", "t">>
T_AUDIO == <<"a", "u", "d", "i", "o">>
T_SHAPE == <<"s", "h", "a", "p", "e">>     \* a type create_clip does not know

DefaultDuration == 15
DefaultWidth == 720
DefaultHeight == 1280

\* create_clip(element, video_width, video_height, video_spec)
create_clip(element, video_width, video_height, video_spec) ==
    LET element_type == Get(element, "type", NoneV) IN
    IF element_type = Str(T_AUDIO) THEN create_audio_clip(element)
    ELSE IF element_type \in {Str(T_IMAGE), Str(T_VIDEO)}
    THEN create_image_clip(element, video_width, video_height)
    ELSE IF element_type = Str(T_TEXT)
    THEN create_text_clip(element, video_width, video_height,
                          Get(video_spec, "duration", Num(DefaultDuration)).n)
    ELSE Dropped

\* the temporary files the create_* call that create_clip dispatches to
\* has left on disk when it returns or raises
clip_temp_left(element) ==
    LET element_type == Get(element, "type", NoneV) IN
    IF element_type = Str(T_AUDIO) THEN audio_temp_left(element)
    ELSE IF element_type \in {Str(T_IMAGE), Str(T_VIDEO)} THEN image_temp_left(element)
    ELSE IF element_type = Str(T_TEXT) THEN text_temp_left(element)
    ELSE {}

-----------------------------------------------------------------------------
(* list.sort(key=lambda c: (getattr(c, 'track', 0), getattr(c, 'start', 0))) *)

\* a faulty variant of the key: start before track
KeyStartFirst(c) == <<c.start, c.track>>

\* line 577: the sort key of a clip
KeyOf(c) == <<c.track, c.start>>

\* a < b on two key components: TypeError unless both are numbers
\* (None < 0 and 0 < None raise; equal components are never compared with <)
ItemLess(a, b) ==
    IF IsNum(a) /\ IsNum(b) THEN (IF a.n < b.n THEN "lt" ELSE "ge") ELSE "err"

\* tuple comparison ka < kb: the first differing component decides
KeyLess(ka, kb) ==
    IF ka[1] # kb[1] THEN ItemLess(ka[1], kb[1])
    ELSE IF ka[2] # kb[2] THEN ItemLess(ka[2], kb[2])
    ELSE "ge"

ClipLess(a, b) == KeyLess(KeyOf(a), KeyOf(b))

Reverse(s) == [i \in 1..Len(s) |-> s[Len(s) + 1 - i]]

\* count_run: the length of the run that starts the list, i the next
\* position to look at; -1 for a TypeError
RECURSIVE ExtendRun(_, _, _)
ExtendRun(s, i, descending) ==
    IF i > Len(s) THEN i - 1
    ELSE
        LET c == ClipLess(s[i], s[i - 1]) IN
        IF c = "err" THEN -1
        ELSE IF (c = "lt") = descending THEN ExtendRun(s, i + 1, descending)
        ELSE i - 1

\* binarysort's search: where s[start] goes in the sorted s[1..start-1];
\* the half-open range [l, r); -1 for a TypeError
RECURSIVE BinarySearch(_, _, _, _)
BinarySearch(s, pivot, l, r) ==
    LET p == l + ((r - l) \div 2)
        c == ClipLess(pivot, s[p])
    IN  IF c = "err" THEN -1
        ELSE
            LET l2 == IF c = "lt" THEN l ELSE p + 1
                r2 == IF c = "lt" THEN p ELSE r
            IN  IF l2 < r2 THEN BinarySearch(s, pivot, l2, r2) ELSE l2

\* binarysort: inserts s[start], s[start+1], ... into the sorted prefix
RECURSIVE BinarySort(_, _)
BinarySort(s, start) ==
    IF start > Len(s) THEN [ok |-> TRUE, seq |-> s]
    ELSE
        LET at == BinarySearch(s, s[start], 1, start) IN
        IF at = -1 THEN [ok |-> FALSE]
        ELSE BinarySort(SubSeq(s, 1, at - 1) \o <<s[start]>> \o SubSeq(s, at, start - 1)
                        \o SubSeq(s, start + 1, Len(s)), start + 1)

\* CPython's list.sort on a list shorter than 64: the first run (reversed
\* when strictly descending), then binary insertion of the rest.
\* [ok |-> TRUE, seq |-> sorted] or [ok |-> FALSE] (TypeError)
PySort(s) ==
    IF Len(s) < 2 THEN [ok |-> TRUE, seq |-> s]
    ELSE
        LET first == ClipLess(s[2], s[1])
            n == IF first = "err" THEN -1 ELSE ExtendRun(s, 3, first = "lt")
        IN  IF n = -1 THEN [ok |-> FALSE]
            ELSE BinarySort(IF first = "lt"
                            THEN Reverse(SubSeq(s, 1, n)) \o SubSeq(s, n + 1, Len(s))
                            ELSE s, n + 1)

-----------------------------------------------------------------------------
(* Requests: the elements a client may put in a scene *)

P50 == Str(<<"5", "0", "%">>)
TXT_HI == Str(<<"H", "i">>)
TXT_BLANK == Str(<<" ">>)

Id(c) == Str(<<c>>)

ElementPool == <<
    \* A: image, track 0, start 1, box given
    [id |-> Id("a"), type |-> Str(T_IMAGE), source |-> Str(URL_WIDE), track |-> Num(0),
     time |-> Num(1), width |-> P50, height |-> P50, x |-> P50, y |-> P50],
    \* B: image, track 1, start 0, covers the canvas
    [id |-> Id("b"), type |-> Str(T_IMAGE), source |-> Str(URL_TALL), track |-> Num(1),
     time |-> Num(0)],
    \* C: video, same track and start as A
    [id |-> Id("c"), type |-> Str(T_VIDEO), source |-> Str(URL_WIDE), track |-> Num(0),
     time |-> Num(1)],
    \* D: image without track and time
    [id |-> Id("d"), type |-> Str(T_IMAGE), source |-> Str(URL_WIDE)],
    \* image without source
    [id |-> Id("n"), type |-> Str(T_IMAGE), track |-> Num(0), time |-> Num(0)],
    \* image without id
    [type |-> Str(T_IMAGE), source |-> Str(URL_WIDE), track |-> Num(0), time |-> Num(0)],
    \* unknown type
    [id |-> Id("u"), type |-> Str(T_SHAPE), track |-> Num(0), time |-> Num(0)],
    \* text, track 1, start 0, no duration
    [id |-> Id("t"), type |-> Str(T_TEXT), text |-> TXT_HI, track |-> Num(1),
     time |-> Num(0)],
    \* text element without text
    [id |-> Id("x"), type |-> Str(T_TEXT), track |-> Num(0), time |-> Num(0)],
    \* text element whose text is blank
    [id |-> Id("e"), type |-> Str(T_TEXT), text |-> TXT_BLANK, track |-> Num(0),
     time |-> Num(0)],
    \* audio
    [id |-> Id("m"), type |-> Str(T_AUDIO), source |-> Str(URL_AUDIO), track |-> Num(0),
     time |-> Num(0)],
    \* image whose download fails
    [id |-> Id("f"), type |-> Str(T_IMAGE), source |-> Str(URL_GONE), track |-> Num(0),
     time |-> Num(0)],
    \* image whose bytes cannot be decoded
    [id |-> Id("g"), type |-> Str(T_IMAGE), source |-> Str(URL_BAD), track |-> Num(0),
     time |-> Num(0)]
>>

MaxElems == 2

Canvases == <<
    [output_format |-> Str(<<"m", "p", "4">>), width |-> Num(40), height |-> Num(20),
     duration |-> Num(5)],
    [output_format |-> Str(<<"m", "p", "4">>), width |-> Num(20), height |-> Num(40),
     duration |-> Num(5)],
    \* no canvas keys: generate_video's defaults apply, /generate_video answers 422
    [output_format |-> Str(<<"m", "p", "4">>)]
>>

\* a dict d with key k set to v
With(d, k, v) == [x \in DOMAIN d \cup {k} |-> IF x = k THEN v ELSE d[x]]

Scenes ==
    {With(Canvases[c], "elements", [i \in DOMAIN choice |-> ElementPool[choice[i]]]) :
        c \in 1..Len(Canvases),
        choice \in UNION {[1..n -> 1..Len(ElementPool)] : n \in 0..MaxElems}}

-----------------------------------------------------------------------------
(* main.py: the request model and POST /generate_video *)

SubElementFields ==
    {"id", "type", "name", "track", "time", "duration", "source", "x", "y", "width",
     "height", "x_anchor", "y_anchor", "fill_color", "text", "font_family", "font_size"}

\* SubElement validates: id and type are required strings
ValidElement(e) ==
    /\ HasKey(e, "id") /\ IsStr(e["id"])
    /\ HasKey(e, "type") /\ IsStr(e["type"])

\* VideoRequest validates
ValidRequest(body) ==
    /\ \A k \in {"output_format", "width", "height", "duration", "elements"} : HasKey(body, k)
    /\ \A i \in 1..Len(body["elements"]) : ValidElement(body["elements"][i])

\* SubElement(...).dict(): every declared field, None where it was not given;
\* the Union tries SubElement first, so no element keeps other keys
ElementDict(e) == [k \in SubElementFields |-> Get(e, k, NoneV)]

\* request.dict()
RequestDict(body) ==
    [output_format |-> body["output_format"], width |-> body["width"],
     height |-> body["height"], duration |-> body["duration"], snapshot_time |-> NoneV,
     elements |-> [i \in 1..Len(body["elements"]) |-> ElementDict(body["elements"][i])]]

NoJob == [elements |-> <<>>]

\* POST /generate_video: 422 for a body that does not validate, else the
\* background task process_video_request_with_timeout(request.dict(), url)
create_video ==
    /\ pc = "idle"
    /\ via' = "http"
    /\ IF ValidRequest(request)
       THEN /\ json_data' = RequestDict(request)
            /\ pc' = "executor"
       ELSE /\ json_data' = json_data
            /\ pc' = "rejected"
    /\ UNCHANGED <<request, index, video_clips, audio_clips, plan, engine_called,
                   upload_called, video_url, gen_error, retry_count, calls, log, unitvars, rendervars>>

\* generate_video(json_data) called with the scene dict as it is
call_generate_video ==
    /\ pc = "idle"
    /\ via' = "direct"
    /\ json_data' = request
    /\ pc' = "loop"
    /\ UNCHANGED <<request, index, video_clips, audio_clips, plan, engine_called,
                   upload_called, video_url, gen_error, retry_count, calls, log, unitvars, rendervars>>

\* main.py line 78: the worker process runs generate_video ...
run_in_executor ==
    /\ pc = "executor"
    /\ pc' = "loop"
    /\ UNCHANGED <<request, via, json_data, index, video_clips, audio_clips, plan,
                   engine_called, upload_called, video_url, gen_error, retry_count,
                   calls, log, unitvars, rendervars>>

\* ... or the await raises (the pool is broken, the worker was killed)
executor_raises ==
    /\ pc = "executor"
    /\ pc' = "except"
    /\ gen_error' = "BrokenProcessPool"
    /\ UNCHANGED <<request, via, json_data, index, video_clips, audio_clips, plan,
                   engine_called, upload_called, video_url, retry_count, calls, log,
                   unitvars, rendervars>>

-----------------------------------------------------------------------------
(* video_generator.py generate_video *)

video_width == Get(json_data, "width", Num(DefaultWidth)).n
video_height == Get(json_data, "height", Num(DefaultHeight)).n

\* "return None" of generate_video, because of why
ReturnNone(why) ==
    /\ video_url' = NoneV
    /\ gen_error' = why
    /\ pc' = "returned"

\* lines 552-570: one turn of the element loop
process_element ==
    /\ pc = "loop"
    /\ index <= Len(json_data["elements"])
    /\ LET element == json_data["elements"][index]
           r == create_clip(element, video_width, video_height, json_data)
       IN  IF r.kind = "raise"
           THEN ReturnNone(r.exc) /\ UNCHANGED <<index, video_clips, audio_clips>>
           ELSE IF r.kind = "clip"
           THEN /\ IF r.clip.kind = "audio"
                   THEN audio_clips' = Append(audio_clips, r.clip)
                        /\ video_clips' = video_clips
                   ELSE video_clips' = Append(video_clips, r.clip)
                        /\ audio_clips' = audio_clips
                /\ index' = index + 1
                /\ UNCHANGED <<pc, video_url, gen_error>>
           \* line 563 formats element['id']
           ELSE IF HasKey(element, "id")
           THEN index' = index + 1
                /\ UNCHANGED <<pc, video_url, gen_error, video_clips, audio_clips>>
           ELSE ReturnNone("KeyError") /\ UNCHANGED <<index, video_clips, audio_clips>>
    /\ tmp_files' = tmp_files \cup clip_temp_left(json_data["elements"][index])
    /\ UNCHANGED <<request, via, json_data, plan, engine_called, upload_called,
                   retry_count, calls, log, unitvars, upload_status, sample>>

\* a faulty variant of line 575: renders whatever the lists hold
HasClipsAlways(v, a) == TRUE

\* line 575: if video_clips or audio_clips
HasClips(v, a) == v # <<>> \/ a # <<>>

\* lines 572-583 and 661-663: after the loop, sort and CompositeVideoClip
compose ==
    /\ pc = "loop"
    /\ index > Len(json_data["elements"])
    /\ IF ~HasClips(video_clips, audio_clips)
       THEN ReturnNone("NoValidClips")
            /\ UNCHANGED <<video_clips, plan, engine_called>>
       ELSE
           LET sorted == PySort(video_clips) IN
           IF ~sorted.ok
           THEN ReturnNone("TypeError")
                /\ UNCHANGED <<video_clips, plan, engine_called>>
           ELSE /\ video_clips' = sorted.seq
                /\ plan' = sorted.seq
                /\ engine_called' = TRUE
                /\ pc' = "write"
                /\ UNCHANGED <<video_url, gen_error>>
    /\ UNCHANGED <<request, via, json_data, index, audio_clips, upload_called,
                   retry_count, calls, log, unitvars, rendervars>>

MaxT == 4

\* the times, local to a clip, at which write_videofile asks for a frame
FrameTimes == 0..MaxT

NoSample == [clip |-> 0, t |-> 0, scales |-> <<>>]

\* write_videofile asks clip k of the composite for its frame at t: every
\* resize of the clip's chain calls its lambda with t.  Frames are asked for
\* in any order and any number of times.
get_frame ==
    /\ pc = "write"
    /\ \E k \in DOMAIN plan, t \in FrameTimes :
           sample' = [clip |-> k, t |-> t,
                      scales |-> [i \in 1..plan[k].resizes |-> Transform(plan[k], i, t)]]
    /\ UNCHANGED <<request, pc, via, json_data, index, video_clips, audio_clips, plan,
                   engine_called, upload_called, video_url, gen_error, retry_count,
                   calls, log, unitvars, tmp_files, upload_status>>

EngineOutcomes == {"ok", "RenderError"}

\* lines 585-640 and 658-660: write_videofile ends, or the engine raises
write_videofile ==
    /\ pc = "write"
    /\ \E outcome \in EngineOutcomes :
           IF outcome = "ok"
           THEN pc' = "upload" /\ UNCHANGED <<video_url, gen_error>>
           ELSE ReturnNone(outcome)
    /\ sample' = NoSample
    /\ UNCHANGED <<request, via, json_data, index, video_clips, audio_clips, plan,
                   engine_called, upload_called, retry_count, calls, log, unitvars,
                   tmp_files, upload_status>>

BODY_URL == <<"h", "t", "t", "p", "s", ":", "/", "/", "0", "x", "0", ".", "s", "t", "/",
              "a", ".", "m", "p", "4", "\n">>
BODY_ERROR == <<"5", "0", "3", " ", "b", "u", "s", "y", "\n">>

\* what the upload host may do: answer 200 with the URL, answer an error
\* status with an error body, answer with an empty body, or not answer
UploadOutcomes == {"url", "error_status", "empty", "conn_error"}

\* lines 642-656: upload, return response.text.strip()
upload ==
    /\ pc = "upload"
    /\ upload_called' = TRUE
    /\ \E outcome \in UploadOutcomes :
           IF outcome = "conn_error"
           THEN ReturnNone("UploadError") /\ UNCHANGED upload_status
           ELSE /\ upload_status' = IF outcome = "error_status" THEN 503 ELSE 200
                /\ video_url' = Str(Strip(IF outcome = "url" THEN BODY_URL
                                          ELSE IF outcome = "error_status" THEN BODY_ERROR
                                          ELSE <<>>))
                /\ pc' = "returned"
                /\ UNCHANGED gen_error
    /\ UNCHANGED <<request, via, json_data, index, video_clips, audio_clips, plan,
                   engine_called, retry_count, calls, log, unitvars, tmp_files, sample>>

-----------------------------------------------------------------------------
(* main.py process_video_request_with_timeout, webhook_sender.py send_webhook *)

RetryCount == 3

LOG_SENT == "Webhook sent successfully"
LOG_GAVE_UP == "Failed to send webhook after 3 attempts"
LOG_FAILED == "Video generation failed; webhook not sent."
LOG_ERROR == "Error in video generation process"

\* what the receiver may do with a POST: accept it, answer an error
\* status, or be unreachable
WebhookOutcomes == {"ok", "http_error", "conn_error"}

\* send_webhook(webhook_url, video_url): both failures are
\* requests.exceptions.RequestException, caught and turned into False
send_webhook(outcome) == [raised |-> FALSE, ret |-> outcome = "ok"]

\* lines 80-82 and 93-94: generate_video returned
generate_video_returned ==
    /\ pc = "returned"
    /\ IF via = "direct"
       THEN pc' = "done" /\ UNCHANGED <<retry_count, log>>
       ELSE IF Truthy(video_url)
       THEN pc' = "send" /\ retry_count' = RetryCount /\ UNCHANGED log
       ELSE pc' = "done" /\ log' = LOG_FAILED /\ UNCHANGED retry_count
    /\ UNCHANGED <<request, via, json_data, index, video_clips, audio_clips, plan,
                   engine_called, upload_called, video_url, gen_error, calls, unitvars, rendervars>>

\* lines 83-92: one turn of the retry loop
webhook_attempt ==
    /\ pc = "send"
    /\ retry_count > 0
    /\ \E outcome \in WebhookOutcomes :
           LET r == send_webhook(outcome) IN
           /\ calls' = Append(calls, [payload |-> "video_url", outcome |-> outcome,
                                      returned |-> r.ret])
           /\ IF ~r.raised
              THEN /\ log' = LOG_SENT
                   /\ pc' = "done"
                   /\ UNCHANGED retry_count
              ELSE /\ retry_count' = retry_count - 1
                   /\ IF retry_count - 1 = 0
                      THEN log' = LOG_GAVE_UP /\ pc' = "done"
                      ELSE UNCHANGED <<log, pc>>
    /\ UNCHANGED <<request, via, json_data, index, video_clips, audio_clips, plan,
                   engine_called, upload_called, video_url, gen_error, unitvars, rendervars>>

\* lines 98-100: the await raised; one send_webhook with the error
except_handler ==
    /\ pc = "except"
    /\ \E outcome \in WebhookOutcomes :
           calls' = Append(calls, [payload |-> "error", outcome |-> outcome,
                                   returned |-> send_webhook(outcome).ret])
    /\ log' = LOG_ERROR
    /\ pc' = "done"
    /\ UNCHANGED <<request, via, json_data, index, video_clips, audio_clips, plan,
                   engine_called, upload_called, video_url, gen_error, retry_count,
                   unitvars, rendervars>>

-----------------------------------------------------------------------------
(* The job specification *)

UnitsIdle ==
    /\ u_n = 0 /\ u_kind = "none" /\ u_value = NoneV /\ u_total = 0
    /\ u_w = 0 /\ u_h = 0 /\ u_ret = [fn |-> "none", r |-> NoneV]

Init ==
    /\ request \in Scenes
    /\ pc = "idle"
    /\ via = "none"
    /\ json_data = NoJob
    /\ index = 1
    /\ video_clips = <<>>
    /\ audio_clips = <<>>
    /\ plan = <<>>
    /\ engine_called = FALSE
    /\ upload_called = FALSE
    /\ video_url = NoneV
    /\ gen_error = ""
    /\ retry_count = 0
    /\ calls = <<>>
    /\ log = ""
    /\ tmp_files = {}
    /\ upload_status = 0
    /\ sample = NoSample
    /\ UnitsIdle

Next ==
    \/ create_video
    \/ call_generate_video
    \/ run_in_executor
    \/ executor_raises
    \/ process_element
    \/ compose
    \/ get_frame
    \/ write_videofile
    \/ upload
    \/ generate_video_returned
    \/ webhook_attempt
    \/ except_handler

Spec == Init /\ [][Next]_vars

-----------------------------------------------------------------------------
(* The job on scenes of one element: every way of giving or leaving out   *)
(* x, y, width, height, duration and time, and the elements with          *)
(* children, animations, fonts and broken downloads                       *)

Absent == [t |-> "absent"]
AUTO == Str(<<"a", "u", "t", "o">>)

\* the dict d, with key k when the client gives it
Put(d, k, v) == IF v = Absent THEN d ELSE With(d, k, v)

ImageBase == [id |-> Id("a"), type |-> Str(T_IMAGE), source |-> Str(URL_WIDE), track |-> Num(0)]
TextBase == [id |-> Id("t"), type |-> Str(T_TEXT), text |-> TXT_HI, track |-> Num(0)]

PosValues == {Absent, P50, AUTO}
SizeValues == {Absent, P50}
DurationValues == {Absent, Num(0), Num(2)}
TimeValues == {Num(0), Num(1), Num(7)}

Boxed(base, xv, yv, wv, dv, tv) ==
    Put(Put(Put(Put(Put(Put(base, "x", xv), "y", yv), "width", wv), "height", wv),
            "duration", dv), "time", tv)

BoxedElements ==
    {Boxed(ImageBase, xv, yv, wv, dv, tv) :
        xv \in PosValues, yv \in PosValues, wv \in SizeValues,
        dv \in DurationValues, tv \in TimeValues}
    \cup
    {Boxed(TextBase, xv, yv, Absent, dv, tv) :
        xv \in PosValues, yv \in PosValues, dv \in DurationValues, tv \in TimeValues}

\* scale animations, as generate_video is given them
ANIM_GROW == [type |-> Str(A_SCALE), time |-> Num(1), duration |-> Num(2),
              start_scale |-> P50, end_scale |-> Str(<<"1", "0", "0", "%">>),
              easing |-> Str(E_LINEAR)]
ANIM_ZOOM == [type |-> Str(A_SCALE), time |-> Num(0), duration |-> Num(2),
              start_scale |-> Str(<<"1", "0", "0", "%">>),
              end_scale |-> Str(<<"1", "3", "0", "%">>), easing |-> Str(E_QUAD)]
ANIM_EASE == [type |-> Str(A_SCALE), time |-> Num(1), duration |-> Num(2),
              start_scale |-> P50, end_scale |-> Str(<<"1", "0", "0", "%">>),
              easing |-> Str(E_QUAD)]

Animated(animations) ==
    [id |-> Id("a"), type |-> Str(T_IMAGE), source |-> Str(URL_WIDE), track |-> Num(0),
     time |-> Num(0), duration |-> Num(4), animations |-> animations]

T_COMPOSITION == <<"c", "o", "m", "p", "o", "s", "i", "t", "i", "o", "n">>

SpecialElements == {
    Animated(<<ANIM_GROW>>), Animated(<<ANIM_ZOOM>>), Animated(<<ANIM_EASE>>),
    Animated(<<ANIM_GROW, ANIM_ZOOM>>), Animated(<<ANIM_ZOOM, ANIM_GROW>>),
    \* a composition of two images
    [id |-> Id("k"), type |-> Str(T_COMPOSITION), track |-> Num(0), time |-> Num(0),
     elements |-> <<With(ImageBase, "time", Num(0)),
                    With(With(ImageBase, "id", Id("b")), "time", Num(1))>>],
    \* downloads that break off, a font that downloads, audio
    [id |-> Id("a"), type |-> Str(T_IMAGE), source |-> Str(URL_CUT), track |-> Num(0),
     time |-> Num(0)],
    [id |-> Id("m"), type |-> Str(T_AUDIO), source |-> Str(URL_CUT), track |-> Num(0),
     time |-> Num(0)],
    [id |-> Id("m"), type |-> Str(T_AUDIO), source |-> Str(URL_AUDIO), track |-> Num(0),
     time |-> Num(0)],
    [id |-> Id("t"), type |-> Str(T_TEXT), text |-> TXT_HI, track |-> Num(0),
     time |-> Num(0), font_family |-> Str(URL_FONT)],
    [id |-> Id("t"), type |-> Str(T_TEXT), text |-> TXT_HI, track |-> Num(0),
     time |-> Num(0), font_family |-> Str(URL_CUT)],
    [id |-> Id("t"), type |-> Str(T_TEXT), text |-> TXT_BLANK, track |-> Num(0),
     time |-> Num(0), font_family |-> Str(URL_FONT)],
    [id |-> Id("a"), type |-> Str(T_IMAGE), source |-> Str(URL_BAD), track |-> Num(0),
     time |-> Num(0)]
}

ClipScenes ==
    {With(Canvases[c], "elements", <<e>>) :
        c \in 1..2, e \in BoxedElements \cup SpecialElements}

InitClips ==
    /\ request \in ClipScenes
    /\ pc = "idle"
    /\ via = "none"
    /\ json_data = NoJob
    /\ index = 1
    /\ video_clips = <<>>
    /\ audio_clips = <<>>
    /\ plan = <<>>
    /\ engine_called = FALSE
    /\ upload_called = FALSE
    /\ video_url = NoneV
    /\ gen_error = ""
    /\ retry_count = 0
    /\ calls = <<>>
    /\ log = ""
    /\ tmp_files = {}
    /\ upload_status = 0
    /\ sample = NoSample
    /\ UnitsIdle

SpecClips == InitClips /\ [][Next]_vars

-----------------------------------------------------------------------------
(* The unit resolver on its own: one value, built by a caller from a      *)
(* number N, resolved by one of the calls the code makes                  *)

MaxRef == 8
MaxStep == 22

UnitNumbers == {5 * k : k \in -2..MaxStep}
CanvasDims == {20, 40}
UnitKinds == {"percent", "vmin", "number", "malformed"}

\* f"{N}%", f"{N} vmin", N itself, or a string that is none of them
BuildValue(kind, n) ==
    IF kind = "percent" THEN Str(IntToChars(n) \o PERCENT)
    ELSE IF kind = "vmin" THEN Str(IntToChars(n) \o <<" ">> \o VMIN)
    ELSE IF kind = "number" THEN Num(n)
    ELSE Str(<<"a", "u", "t", "o">>)

JobIdle ==
    /\ request = NoJob /\ pc = "units" /\ via = "none" /\ json_data = NoJob
    /\ index = 1 /\ video_clips = <<>> /\ audio_clips = <<>> /\ plan = <<>>
    /\ engine_called = FALSE /\ upload_called = FALSE /\ video_url = NoneV
    /\ gen_error = "" /\ retry_count = 0 /\ calls = <<>> /\ log = ""
    /\ tmp_files = {} /\ upload_status = 0 /\ sample = NoSample

InitUnits ==
    /\ JobIdle
    /\ u_n \in UnitNumbers
    /\ u_kind \in UnitKinds
    /\ u_value = BuildValue(u_kind, u_n)
    /\ u_total \in 0..MaxRef
    /\ u_w \in CanvasDims
    /\ u_h \in CanvasDims
    /\ u_ret = [fn |-> "none", r |-> NoneV]

UnitInputs == <<jobvars, u_n, u_kind, u_value, u_total, u_w, u_h>>

\* parse_percentage(value, total)
call_parse_percentage ==
    /\ u_ret.fn = "none"
    /\ u_ret' = [fn |-> "parse_percentage",
                 r |-> Num(parse_percentage(u_value, u_total, NoneV))]
    /\ UNCHANGED UnitInputs

\* parse_size(value, reference, video_width, video_height)
call_parse_size ==
    /\ u_ret.fn = "none"
    /\ u_ret' = [fn |-> "parse_size", r |-> parse_size(u_value, u_total, u_w, u_h)]
    /\ UNCHANGED UnitInputs

\* the element's width, height, x, y and font_size, as create_image_clip
\* and create_text_clip resolve them on a canvas of u_w x u_h (x and y
\* for a clip u_total wide or high)
resolve_width ==
    /\ u_ret.fn = "none"
    /\ u_ret' = [fn |-> "width", r |-> Num(TargetWidth([width |-> u_value], u_w))]
    /\ UNCHANGED UnitInputs

resolve_height ==
    /\ u_ret.fn = "none"
    /\ u_ret' = [fn |-> "height", r |-> Num(TargetHeight([height |-> u_value], u_h))]
    /\ UNCHANGED UnitInputs

resolve_x ==
    /\ u_ret.fn = "none"
    /\ u_ret' = [fn |-> "x", r |-> Num(FinalX([x |-> u_value], u_w, u_total))]
    /\ UNCHANGED UnitInputs

resolve_y ==
    /\ u_ret.fn = "none"
    /\ u_ret' = [fn |-> "y", r |-> Num(FinalY([y |-> u_value], u_h, u_total))]
    /\ UNCHANGED UnitInputs

resolve_font_size ==
    /\ u_ret.fn = "none"
    /\ u_ret' = [fn |-> "font_size",
                 r |-> Num(FontSize([font_size |-> u_value], u_w, u_h))]
    /\ UNCHANGED UnitInputs

NextUnits ==
    \/ call_parse_percentage
    \/ call_parse_size
    \/ resolve_width
    \/ resolve_height
    \/ resolve_x
    \/ resolve_y
    \/ resolve_font_size

SpecUnits == InitUnits /\ [][NextUnits]_vars

-----------------------------------------------------------------------------
(* Claims *)

Elements == json_data["elements"]
Delivered == {i \in DOMAIN calls : calls[i].outcome = "ok"}
JobDone == pc = "done" /\ via = "http"
\* generate_video returned the URL the upload host answered
GotUrl == video_url = Str(Strip(BODY_URL))
\* generate_video ran and returned (the await did not raise)
Returned == pc \in {"returned", "send"} \/ (pc = "done" /\ gen_error # "BrokenProcessPool")

\* C1: when a submitted job has run to completion, the caller's endpoint
\* has received exactly one notification, whatever generate_video did.
\* (The receiver is taken at its best: it accepts every POST it gets.)
C1_ExactlyOneNotification ==
    (JobDone /\ \A i \in DOMAIN calls : calls[i].outcome = "ok") =>
        Cardinality(Delivered) = 1

\* C2: with a video URL to deliver, the receiver is called until the first
\* call it accepts, at most 3 times: the number of calls is the index of
\* the first accepted one, or 3 when none is accepted.
C2_AttemptsUntilFirstSuccess ==
    (JobDone /\ GotUrl) =>
        /\ Len(calls) \in 1..RetryCount
        /\ \A i \in 1..(Len(calls) - 1) : calls[i].outcome # "ok"
        /\ calls[Len(calls)].outcome = "ok" \/ Len(calls) = RetryCount

\* C3: send_webhook returns True exactly for an accepted POST and False for
\* every request failure, and main.py reports the delivery as successful
\* exactly when send_webhook returned True.
C3_SuccessIffReturnedTrue ==
    /\ \A i \in DOMAIN calls : calls[i].returned = (calls[i].outcome = "ok")
    /\ (JobDone /\ GotUrl) =>
           (log = LOG_SENT <=> (calls # <<>> /\ calls[Len(calls)].returned))

C5_FailingElementSkipped ==
    (Returned /\ \A i \in DOMAIN Elements : HasKey(Elements[i], "id")) =>
        index > Len(Elements)

\* an element that yields a visual clip when it is the whole scene
RendersAlone(e) ==
    LET r == create_clip(e, video_width, video_height, json_data) IN
    r.kind = "clip" /\ r.clip.kind # "audio"

\* C6: generate_video called with a scene holding an element without id
\* and a valid element renders the valid element: the engine is invoked
\* with its clip.
C6_IdlessElementDropped ==
    \A i, j \in DOMAIN Elements :
        (/\ via = "direct" /\ Returned
         /\ ~HasKey(Elements[i], "id")
         /\ HasKey(Elements[j], "id") /\ RendersAlone(Elements[j])) =>
            /\ engine_called
            /\ \E k \in DOMAIN plan : plan[k].name = Elements[j]["id"]

\* a may stand before b in a list sorted by (track, start)
Ordered(a, b) ==
    IF a.track # b.track
    THEN IsNum(a.track) /\ IsNum(b.track) /\ a.track.n < b.track.n
    ELSE IF a.start # b.start
    THEN IsNum(a.start) /\ IsNum(b.start) /\ a.start.n < b.start.n
    ELSE TRUE

SameKey(a, b) == a.track = b.track /\ a.start = b.start

Perms(n) == {p \in [1..n -> 1..n] : \A i, j \in 1..n : p[i] = p[j] => i = j}

\* out is the stable sort of in by (track, start)
IsStableSortOf(out, in) ==
    /\ Len(out) = Len(in)
    /\ \E p \in Perms(Len(in)) :
           /\ \A i \in 1..Len(in) : out[i] = in[p[i]]
           /\ \A i, j \in 1..Len(in) :
                  i < j => /\ Ordered(out[i], out[j])
                           /\ SameKey(out[i], out[j]) => p[i] < p[j]

\* C7: the clip list handed to the media engine is the stable sort, by
\* (track, start) ascending, of the clips the element loop created, in
\* whatever order the elements came.
C7_PlanIsStableSort ==
    [][(~engine_called /\ engine_called') => IsStableSortOf(plan', video_clips)]_vars

\* C7's case: B (track 1, start 0) was given before A (track 0, start 1)
\* and the engine gets A before B
C7_Witness ==
    /\ engine_called
    /\ Len(plan) = 2
    /\ Elements[1]["id"] = Id("b") /\ Elements[2]["id"] = Id("a")
    /\ plan[1].name = Id("a") /\ plan[2].name = Id("b")

\* C8: a clip made for an element of a submitted request has the
\* element's track and time, 0 where the request gave none, and the job
\* is not lost to a missing track (no TypeError in the sort).
C8_DefaultsSurvive ==
    via = "http" =>
        /\ \A k \in DOMAIN video_clips : \A i \in DOMAIN request["elements"] :
               LET c == video_clips[k]
                   e == request["elements"][i]
               IN  e["id"] = c.name =>
                       /\ c.track = Get(e, "track", Num(0))
                       /\ c.start = Get(e, "time", Num(0))
        /\ gen_error # "TypeError"

ClampN == Max(0, Min(u_n, 100))
PercentCall == u_ret.fn = "parse_percentage" /\ u_kind = "percent"

\* round(a / b) for a >= 0, b > 0 even: halves go to the even neighbour
RoundDiv(a, b) ==
    LET q == a \div b
        rest == a % b
    IN  IF 2 * rest > b \/ (2 * rest = b /\ q % 2 = 1) THEN q + 1 ELSE q

\* C9 as stated: "N%" of ref resolves to round(clamp(N, 0, 100) / 100 * ref).
C9_PercentRounds ==
    PercentCall => u_ret.r = Num(RoundDiv(ClampN * u_total, 100))

\* C9 amended: "N%" of ref >= 0 resolves to clamp(N, 0, 100) / 100 * ref
\* truncated to an integer, which lies in [0, ref].
C9_PercentTruncates ==
    PercentCall =>
        /\ IsNum(u_ret.r)
        /\ 100 * u_ret.r.n <= ClampN * u_total
        /\ ClampN * u_total < 100 * (u_ret.r.n + 1)
        /\ u_ret.r.n \in 0..u_total

\* C9's case: "50%" of 3 is 1, where rounding gives 2
C9_Witness ==
    PercentCall /\ u_n = 50 /\ u_total = 3 /\ u_ret.r = Num(1)

\* C10: an "N vmin" width, height, x, y or font_size resolves to
\* round(clamp(N, 0, 100) / 100 * min(canvas_width, canvas_height)).
C10_VminOfSmallerSide ==
    (u_kind = "vmin" /\ u_ret.fn \in {"width", "height", "x", "y", "font_size"}) =>
        u_ret.r = Num(RoundDiv(ClampN * Min(u_w, u_h), 100))

\* C11: every visual clip handed to the engine lies inside the canvas:
\* 0 <= x <= canvas_width - clip_width and 0 <= y <= canvas_height -
\* clip_height, whether or not the element gave width/height/x/y.
C11_ClipInsideCanvas ==
    (engine_called /\ via = "http") =>
        \A i \in DOMAIN plan :
            /\ 0 <= plan[i].x /\ plan[i].x <= video_width - plan[i].w
            /\ 0 <= plan[i].y /\ plan[i].y <= video_height - plan[i].h

\* the one element of a scene of ClipScenes as the client gave it, and the
\* clip made from it
Given == request["elements"][1]
Processed == index = 2 /\ Len(request["elements"]) = 1
Visual == Given["type"] \in {Str(T_IMAGE), Str(T_VIDEO), Str(T_TEXT)}
Unresolved(k) == ~HasKey(Given, k) \/ Given[k] = AUTO

\* C12: an element whose x or y is absent or malformed is not failed, and
\* that axis is centered: the coordinate is (canvas - element) / 2.  Stated
\* for text elements and for image elements that give width and height.
C12_UnresolvedAxisCentered ==
    (Processed /\ Visual /\ (Given["type"] = Str(T_TEXT) \/ HasKey(Given, "width"))) =>
        /\ Len(video_clips) = 1
        /\ Unresolved("x") =>
               video_clips[1].x = (video_width - video_clips[1].w) \div 2
        /\ Unresolved("y") =>
               video_clips[1].y = (video_height - video_clips[1].h) \div 2

\* C13: the duration of a visual clip is the element's duration when the
\* element has one (0 included), else max(0, scene.duration - start_time).
C13_EffectiveDuration ==
    (Processed /\ Visual /\ Len(video_clips) = 1) =>
        video_clips[1].duration =
            IF HasKey(Given, "duration") THEN Given["duration"]
            ELSE Num(Max(0, request["duration"].n - Given["time"].n))

\* the number a percentage string declares
Declared(v) == ParseFloat(RStripChars(v.s, {"%"})).v

\* C14: a scale animation of duration > 0 evaluates to start_scale up to
\* anim.time and to end_scale from anim.time + anim.duration on, the scales
\* being the declared percentages divided by 100 (here in hundredths).
\* Stated for clips with one animation.
C14_AnimationEndpoints ==
    (sample.clip # 0 /\ HasKey(Given, "animations") /\ Len(Given["animations"]) = 1) =>
        LET anim == Given["animations"][1]
            v == sample.scales[1]
        IN  /\ v.den # 0
            /\ sample.t <= anim["time"].n =>
                   v.num = Declared(anim["start_scale"]) * v.den
            /\ sample.t >= anim["time"].n + anim["duration"].n =>
                   v.num = Declared(anim["end_scale"]) * v.den

\* C15: a composition contributes one clip per valid visual child.
C15_CompositionFlattened ==
    (Processed /\ Given["type"] = Str(T_COMPOSITION)) =>
        Len(video_clips) = Len(Given["elements"])

\* C16: no temporary file of an element is on disk once its create_* call
\* has returned, on any path, nor after the element loop.
C16_NoTempFileLeft == tmp_files = {}

\* C17: sampled at any time, the i-th resize of a clip returns the scale
\* that the i-th animation of its element defines.
C17_OwnParameters ==
    (sample.clip # 0 /\ HasKey(Given, "animations")) =>
        \A i \in DOMAIN sample.scales :
            LET own == scale_func(AnimLocals(Given["animations"][i],
                                             plan[sample.clip].duration), sample.t)
            IN  sample.scales[i].num * own.den = own.num * sample.scales[i].den

\* C18: generate_video returns a URL, and a notification carries it, only
\* when the upload host answered with a success status; after an error
\* status generate_video returns None.
C18_SuccessCarriesArtifact ==
    /\ upload_status \notin {0, 200} => video_url = NoneV
    /\ \A i \in DOMAIN calls :
           calls[i].payload = "video_url" => upload_status = 200

====
